---- MODULE Spec2Model ----
(***************************************************************************)
(* Model of Backend/main.py: the CFO helper backend.                       *)
(*                                                                         *)
(* Two FastAPI endpoints (POST /stimulate, POST /export-report) share two  *)
(* module-level counters.  Both handlers are `async def` bodies without a  *)
(* single `await`, so the event loop runs each handler invocation from its *)
(* first to its last line without interleaving another one: a handler      *)
(* invocation is one atomic step.  Concurrency is in the requests that are *)
(* in flight between their submission and the step that handles them.      *)
(*                                                                         *)
(* Numbers.  pricing_adjustment is a float holding a percentage; the model *)
(* draws whole percentages and carries every float-valued amount in        *)
(* hundredths (value * Scale), so that avg_price * (1 + adj/100) is exact. *)
(* Integer-valued amounts (total_monthly_costs, salary_costs) are plain    *)
(* integers.  runway_months is the fraction [num, den].                    *)
(*                                                                         *)
(* Text.  A string is a sequence of tokens; a number is formatted to its   *)
(* digit tokens the way the format spec `:,` does.                         *)
(***************************************************************************)
EXTENDS Integers, Sequences, FiniteSets, TLC

VARIABLES scenario_counter, report_counter, requests, log, call

vars == <<scenario_counter, report_counter, requests, log, call>>

\* Largest number of requests submitted in one run.
MaxRequests == 2

\* The divisor of the percentage in `1 + data.pricing_adjustment / 100`.
Scale == 100

Abs(x) == IF x < 0 THEN -x ELSE x

None == [none |-> TRUE]

(***************************************************************************)
(* ScenarioInput and request validation                                    *)
(***************************************************************************)

\* The fields class ScenarioInput declares.
DeclaredFields ==
    {"initial_budget", "time_horizon", "sales_volume", "avg_price_per_unit",
     "staff_count", "marketing_spend", "operational_expenses",
     "pricing_adjustment"}

\* Building a ScenarioInput from a JSON body: every declared field is
\* required, and a key the class does not declare is dropped (the default
\* model configuration ignores extra keys).
ScenarioInput(body) ==
    IF DeclaredFields \subseteq DOMAIN body
    THEN [ok |-> TRUE, data |-> [f \in DeclaredFields |-> body[f]]]
    ELSE [ok |-> FALSE]

\* Attribute access on a model instance.
HasAttr(data, name) == name \in DOMAIN data

(***************************************************************************)
(* calculate_financial_outcome                                             *)
(***************************************************************************)

\* An exception leaving a call.
Raises(e) == [exception |-> e]

\* A summary returning a text.
Returns(text) == [text |-> text]

IsException(r) == "exception" \in DOMAIN r

calculate_financial_outcome(data) ==
    LET adjusted_price == data.avg_price_per_unit * (Scale + data.pricing_adjustment)
        monthly_revenue == data.sales_volume * adjusted_price
    IN  IF ~HasAttr(data, "average_salary")
        THEN Raises("AttributeError")
        ELSE
        LET salary_costs == data.staff_count * data.average_salary
            total_monthly_costs ==
                data.operational_expenses + data.marketing_spend + salary_costs
            monthly_net_flow == monthly_revenue - Scale * total_monthly_costs
            runway_months ==
                IF monthly_net_flow < 0 /\ data.initial_budget > 0
                THEN [num |-> Scale * data.initial_budget, den |-> Abs(monthly_net_flow)]
                ELSE None
            projected_balance ==
                Scale * data.initial_budget + (monthly_net_flow * data.time_horizon)
        IN  [monthly_net_flow |-> monthly_net_flow,
             runway_months |-> runway_months,
             projected_balance_after_horizon |-> projected_balance,
             monthly_revenue |-> monthly_revenue,
             total_monthly_costs |-> total_monthly_costs,
             salary_costs |-> salary_costs]

(***************************************************************************)
(* Number formatting                                                       *)
(***************************************************************************)

DigitChar == <<"0", "1", "2", "3", "4", "5", "6", "7", "8", "9">>

RECURSIVE IntDigits(_)
\* The decimal digits of a natural number.
IntDigits(n) ==
    IF n < 10 THEN <<DigitChar[n + 1]>>
    ELSE IntDigits(n \div 10) \o <<DigitChar[(n % 10) + 1]>>

RECURSIVE Grouped(_)
\* The `,` option: a comma before every group of three digits.
Grouped(ds) ==
    IF Len(ds) <= 3 THEN ds
    ELSE Grouped(SubSeq(ds, 1, Len(ds) - 3)) \o <<",">>
            \o SubSeq(ds, Len(ds) - 2, Len(ds))

\* f"{n:,}" of an int.
FormatCommaInt(n) ==
    (IF n < 0 THEN <<"-">> ELSE <<>>) \o Grouped(IntDigits(Abs(n)))

\* f"{x:,}" of a float x = v / Scale: grouped integer part, the point, and
\* the shortest fraction that reads back as x (at least one digit).
FormatCommaFloat(v) ==
    LET a == Abs(v)
        f == a % Scale
    IN  (IF v < 0 THEN <<"-">> ELSE <<>>)
        \o Grouped(IntDigits(a \div Scale)) \o <<".">>
        \o (IF f % 10 = 0 THEN <<DigitChar[(f \div 10) + 1]>>
            ELSE <<DigitChar[(f \div 10) + 1], DigitChar[(f % 10) + 1]>>)

\* f"{r:.1f}" of the non-negative fraction r = num / den: one digit after
\* the point, the nearest tenth, a tie going to the even tenth.
FormatOneDecimal(r) ==
    LET q == (10 * r.num) \div r.den
        rem == (10 * r.num) % r.den
        tenths == IF 2 * rem > r.den \/ (2 * rem = r.den /\ q % 2 = 1)
                  THEN q + 1 ELSE q
    IN  IntDigits(tenths \div 10) \o <<".", DigitChar[(tenths % 10) + 1]>>

(***************************************************************************)
(* The external text-generation call and the two summaries                 *)
(***************************************************************************)

IsSpace(tok) == tok \in {" ", "\n"}

RECURSIVE Strip(_)
\* str.strip(): leading and trailing whitespace removed.
Strip(text) ==
    IF text = <<>> THEN text
    ELSE IF IsSpace(Head(text)) THEN Strip(Tail(text))
    ELSE IF IsSpace(text[Len(text)]) THEN Strip(SubSeq(text, 1, Len(text) - 1))
    ELSE text

\* What model.generate_content(prompt) followed by response.text can do:
\* return a text, or raise (the request fails, the service answers with an
\* error, or the response holds no text part).
GeminiResults ==
    {[kind |-> "ok", text |-> <<" ", "The outlook is stable.", "\n">>],
     [kind |-> "network_error"],
     [kind |-> "capability_error"],
     [kind |-> "malformed_response"]}

\* The `try` block of both summaries: the stripped text, or the exception.
GenerateContent(prompt, gemini) ==
    IF gemini.kind = "ok" THEN [ok |-> TRUE, text |-> Strip(gemini.text)]
    ELSE [ok |-> FALSE, exception |-> gemini.kind]

\* A handler narrowed to one exception class: `except ConnectionError`.
CatchesConnectionErrorOnly(exception) == exception = "network_error"

\* `except Exception` catches every failure of the call.
Catches(exception) == TRUE


get_llm_summary(math_result, gemini) ==
    LET runway_text ==
            IF math_result.runway_months # None
            THEN FormatOneDecimal(math_result.runway_months) \o <<" months">>
            ELSE <<"N/A (profitable or no initial budget)">>
        prompt ==
            <<"You are an expert CFO assistant analyzing a business scenario.",
              "Monthly Net Cash Flow: ₹">>
            \o FormatCommaFloat(math_result.monthly_net_flow)
            \o <<"Projected Balance after Time Horizon: ₹">>
            \o FormatCommaFloat(math_result.projected_balance_after_horizon)
            \o <<"Calculated Runway: ">> \o runway_text
            \o <<"Monthly Revenue: ₹">>
            \o FormatCommaFloat(math_result.monthly_revenue)
            \o <<"Monthly Costs: ₹">>
            \o FormatCommaInt(math_result.total_monthly_costs)
            \o <<"Summary:", "Key Insight:", "Recommendation:">>
        response == GenerateContent(prompt, gemini)
    IN  IF response.ok THEN Returns(response.text)
        ELSE IF Catches(response.exception)
        THEN Returns(<<"Could not generate an AI summary for this scenario.">>)
        ELSE Raises(response.exception)

get_short_llm_summary(math_result, gemini) ==
    LET outcome == math_result.monthly_net_flow
        outcome_text ==
            IF outcome >= 0
            THEN <<"a monthly profit of ₹">> \o FormatCommaFloat(outcome)
            ELSE <<"a monthly loss of ₹">> \o FormatCommaFloat(Abs(outcome))
        prompt ==
            <<"You are a financial analyst summarizing a business scenario for a report headline.",
              "The result was ">> \o outcome_text
            \o <<".", "Summarize this in a single, concise, tweet-style sentence (under 20 words).">>
        response == GenerateContent(prompt, gemini)
    IN  IF response.ok THEN Returns(response.text)
        ELSE IF Catches(response.exception)
        THEN Returns(<<"Scenario resulted in ">> \o outcome_text \o <<".">>)
        ELSE Raises(response.exception)

(***************************************************************************)
(* The request handlers                                                    *)
(***************************************************************************)

\* The JSON bodies clients send: the documented example (it carries an
\* average_salary key), a loss-making scenario, and a body that lacks
\* required fields.
Bodies ==
    {[initial_budget |-> 100000, time_horizon |-> 12, sales_volume |-> 500,
      avg_price_per_unit |-> 50, staff_count |-> 5, marketing_spend |-> 2000,
      operational_expenses |-> 3000, pricing_adjustment |-> 0,
      average_salary |-> 4000],
     [initial_budget |-> 1000, time_horizon |-> 2, sales_volume |-> 1,
      avg_price_per_unit |-> 100, staff_count |-> 1, marketing_spend |-> 50,
      operational_expenses |-> 100, pricing_adjustment |-> -10],
     [initial_budget |-> 1000, time_horizon |-> 2]}

Endpoints == {"/stimulate", "/export-report"}

\* The response of the framework to a body that is no ScenarioInput.
UnprocessableEntity == [status |-> 422]

\* The response of the framework when an exception leaves the handler.
InternalServerError == [status |-> 500]

Handled == {log[i].id : i \in 1..Len(log)}

Pending == (1..Len(requests)) \ Handled

\* The dict stimulate_scenario returns, or the exception that leaves it.
StimulateResponse(data, gemini, count) ==
    LET math_result == calculate_financial_outcome(data)
        summary_text ==
            IF IsException(math_result) THEN math_result
            ELSE get_llm_summary(math_result, gemini)
    IN  IF IsException(summary_text) THEN InternalServerError
        ELSE [status |-> 200,
              summary |-> summary_text.text,
              data |-> math_result,
              scenario_count |-> count]

\* The dict export_report returns, or the exception that leaves it.
ExportResponse(data, gemini, count) ==
    LET math_result == calculate_financial_outcome(data)
        short_summary ==
            IF IsException(math_result) THEN math_result
            ELSE get_short_llm_summary(math_result, gemini)
    IN  IF IsException(short_summary) THEN InternalServerError
        ELSE [status |-> 200,
              message |-> "Report export simulated successfully!",
              short_summary |-> short_summary.text,
              report_count |-> count]

\* The increment of /stimulate applied to the other global.
StimulateCountersOtherGlobal(sc, rc) ==
    [scenario_counter |-> sc, report_counter |-> rc + 1]

\* `global scenario_counter; scenario_counter += 1`: the counters after it.
StimulateCounters(sc, rc) == [scenario_counter |-> sc + 1, report_counter |-> rc]

\* `global report_counter; report_counter += 1`: the counters after it.
ExportCounters(sc, rc) == [scenario_counter |-> sc, report_counter |-> rc + 1]

\* One invocation of the /stimulate handler, first line to last.
stimulate_scenario(id, data, gemini) ==
    LET counters == StimulateCounters(scenario_counter, report_counter)
    IN  /\ scenario_counter' = counters.scenario_counter
        /\ report_counter' = counters.report_counter
        /\ log' = Append(log,
                [id |-> id, gemini |-> gemini,
                 response |-> StimulateResponse(data, gemini, counters.scenario_counter)])

\* One invocation of the /export-report handler, first line to last.
export_report(id, data, gemini) ==
    LET counters == ExportCounters(scenario_counter, report_counter)
    IN  /\ scenario_counter' = counters.scenario_counter
        /\ report_counter' = counters.report_counter
        /\ log' = Append(log,
                [id |-> id, gemini |-> gemini,
                 response |-> ExportResponse(data, gemini, counters.report_counter)])

\* The framework rejects the body; the handler does not run.
Reject(id) ==
    /\ log' = Append(log, [id |-> id, response |-> UnprocessableEntity])
    /\ UNCHANGED <<scenario_counter, report_counter>>

\* A client sends a request; `seen` is the number of responses given so far.
Submit(endpoint, body) ==
    /\ Len(requests) < MaxRequests
    /\ requests' = Append(requests,
            [endpoint |-> endpoint, body |-> body, seen |-> Len(log)])
    /\ UNCHANGED <<scenario_counter, report_counter, log, call>>

\* The server takes up a pending POST /stimulate; `gemini` is what the
\* text-generation service does while this request is served.
PostStimulate(id) ==
    /\ id \in Pending
    /\ requests[id].endpoint = "/stimulate"
    /\ LET parsed == ScenarioInput(requests[id].body)
       IN  IF parsed.ok
           THEN \E gemini \in GeminiResults :
                    stimulate_scenario(id, parsed.data, gemini)
           ELSE Reject(id)
    /\ UNCHANGED <<requests, call>>

\* The server takes up a pending POST /export-report.
PostExportReport(id) ==
    /\ id \in Pending
    /\ requests[id].endpoint = "/export-report"
    /\ LET parsed == ScenarioInput(requests[id].body)
       IN  IF parsed.ok
           THEN \E gemini \in GeminiResults :
                    export_report(id, parsed.data, gemini)
           ELSE Reject(id)
    /\ UNCHANGED <<requests, call>>

\* The process after start-up: both counters 0, nothing received.
Init ==
    /\ scenario_counter = 0
    /\ report_counter = 0
    /\ requests = <<>>
    /\ log = <<>>
    /\ call = [fn |-> "none"]

Next ==
    \/ \E endpoint \in Endpoints, body \in Bodies : Submit(endpoint, body)
    \/ \E id \in 1..MaxRequests : PostStimulate(id)
    \/ \E id \in 1..MaxRequests : PostExportReport(id)

Spec == Init /\ [][Next]_vars

(***************************************************************************)
(* The functions called on their own                                       *)
(***************************************************************************)

\* The ScenarioInput objects the functions are applied to.
ScenarioInputs ==
    [initial_budget : {0, 100000}, time_horizon : {0, 12},
     sales_volume : {1, 500}, avg_price_per_unit : {1, 50},
     staff_count : {0, 5}, marketing_spend : {2000},
     operational_expenses : {3000, 30000}, pricing_adjustment : {-10, 0, 5}]

\* The dicts of the six amounts of a forecast: what the return statement of
\* calculate_financial_outcome builds from an object that has a salary.
MathResults ==
    {calculate_financial_outcome(data @@ ("average_salary" :> 4000)) :
        data \in ScenarioInputs}

CallCalculate(data) ==
    /\ call' = [fn |-> "calculate_financial_outcome", data |-> data,
                ret |-> calculate_financial_outcome(data)]
    /\ UNCHANGED <<scenario_counter, report_counter, requests, log>>

CallLlmSummary(math_result, gemini) ==
    /\ call' = [fn |-> "get_llm_summary", math_result |-> math_result,
                gemini |-> gemini, ret |-> get_llm_summary(math_result, gemini)]
    /\ UNCHANGED <<scenario_counter, report_counter, requests, log>>

CallShortLlmSummary(math_result, gemini) ==
    /\ call' = [fn |-> "get_short_llm_summary", math_result |-> math_result,
                gemini |-> gemini,
                ret |-> get_short_llm_summary(math_result, gemini)]
    /\ UNCHANGED <<scenario_counter, report_counter, requests, log>>

NextFn ==
    \/ \E data \in ScenarioInputs : CallCalculate(data)
    \/ \E m \in MathResults, g \in GeminiResults : CallLlmSummary(m, g)
    \/ \E m \in MathResults, g \in GeminiResults : CallShortLlmSummary(m, g)

SpecFn == Init /\ [][NextFn]_vars

(***************************************************************************)
(* Properties                                                              *)
(***************************************************************************)

LogIndexes == 1..Len(log)

RequestOf(i) == requests[log[i].id]

\* The handler ran for entry i: its body was a ScenarioInput.
Ran(i) == ScenarioInput(RequestOf(i).body).ok

\* The entries of an endpoint that ended in a successful response.
Successful(endpoint) ==
    {i \in LogIndexes :
        RequestOf(i).endpoint = endpoint /\ log[i].response.status = 200}

CountField(endpoint) ==
    IF endpoint = "/stimulate" THEN "scenario_count" ELSE "report_count"

\* C1: after N successful calls to a handler, in any interleaving, its
\* counter equals its value at process start (0) plus N.
C1_CounterIsSuccessfulCalls ==
    /\ scenario_counter = Cardinality(Successful("/stimulate"))
    /\ report_counter = Cardinality(Successful("/export-report"))

\* C2: a call that ends in a successful response increments the counter of
\* its handler by exactly 1, and a call that does not end in a successful
\* response leaves both counters unchanged.
C2_OnlySuccessIncrements ==
    [][Len(log') = Len(log) + 1 =>
        LET e == log'[Len(log')]
            endpoint == requests[e.id].endpoint
            ok == e.response.status = 200
        IN  /\ scenario_counter' = scenario_counter
                + (IF ok /\ endpoint = "/stimulate" THEN 1 ELSE 0)
            /\ report_counter' = report_counter
                + (IF ok /\ endpoint = "/export-report" THEN 1 ELSE 0)]_vars

\* C3: a handler call served while the text-generation call fails still
\* answers with the success status, the numeric outcome and its count; only
\* the summary is the fallback text.
C3_GeminiFailureStillSucceeds ==
    \A i \in LogIndexes :
        (Ran(i) /\ log[i].gemini.kind # "ok") =>
            LET r == log[i].response
                endpoint == RequestOf(i).endpoint
            IN  /\ r.status = 200
                /\ CountField(endpoint) \in DOMAIN r
                /\ endpoint = "/stimulate" =>
                      /\ ~IsException(r.data)
                      /\ r.summary =
                           <<"Could not generate an AI summary for this scenario.">>

\* Reading f"{x:,}" back: the float, in hundredths, that the digit tokens
\* of a non-negative amount denote.
DigitValue(c) == CHOOSE d \in 0..9 : DigitChar[d + 1] = c

RECURSIVE DigitsValue(_)
DigitsValue(ds) ==
    IF ds = <<>> THEN 0
    ELSE 10 * DigitsValue(SubSeq(ds, 1, Len(ds) - 1)) + DigitValue(ds[Len(ds)])

ParseCommaFloat(toks) ==
    LET plain == SelectSeq(toks, LAMBDA c : c # ",")
        dot == CHOOSE i \in 1..Len(plain) : plain[i] = "."
        whole == SubSeq(plain, 1, dot - 1)
        frac == SubSeq(plain, dot + 1, Len(plain))
    IN  Scale * DigitsValue(whole)
        + (IF Len(frac) = 1 THEN 10 * DigitsValue(frac) ELSE DigitsValue(frac))

\* C4: when the text-generation call fails, whatever the failure,
\* get_llm_summary returns the fixed message and get_short_llm_summary
\* returns "Scenario resulted in a monthly profit|loss of <amount>.": profit
\* when monthly_net_flow >= 0, loss otherwise, the amount |monthly_net_flow|.
C4_FallbackText ==
    /\ (call.fn = "get_llm_summary" /\ call.gemini.kind # "ok") =>
          call.ret = Returns(<<"Could not generate an AI summary for this scenario.">>)
    /\ (call.fn = "get_short_llm_summary" /\ call.gemini.kind # "ok") =>
          /\ ~IsException(call.ret)
          /\ LET t == call.ret.text
                 flow == call.math_result.monthly_net_flow
             IN  /\ Len(t) >= 4
                 /\ t[1] = "Scenario resulted in "
                 /\ t[2] = (IF flow >= 0 THEN "a monthly profit of ₹"
                            ELSE "a monthly loss of ₹")
                 /\ t[Len(t)] = "."
                 /\ ParseCommaFloat(SubSeq(t, 3, Len(t) - 1)) = Abs(flow)

\* A loss of 1,000 or more summarised while the response of the service has
\* no text part: the fallback sentence is returned, its amount grouped.
C4_Witness_ShortLoss ==
    /\ call.fn = "get_short_llm_summary"
    /\ call.gemini.kind = "malformed_response"
    /\ call.math_result.monthly_net_flow <= -1000 * Scale
    /\ ~IsException(call.ret)
    /\ "," \in {call.ret.text[k] : k \in 1..Len(call.ret.text)}

OutcomeFields ==
    {"monthly_net_flow", "runway_months", "projected_balance_after_horizon",
     "monthly_revenue", "total_monthly_costs", "salary_costs"}

\* C5: calculate_financial_outcome succeeds for every ScenarioInput and
\* returns the complete outcome of six amounts.
C5_ComputeAlwaysSucceeds ==
    call.fn = "calculate_financial_outcome" =>
        /\ ~IsException(call.ret)
        /\ DOMAIN call.ret = OutcomeFields

\* C6: the outcome compute returns has runway_months present iff
\* monthly_net_flow < 0 and initial_budget > 0, and then it equals
\* initial_budget / |monthly_net_flow|; otherwise it is None.
C6_RunwayPresence ==
    call.fn = "calculate_financial_outcome" =>
        /\ "runway_months" \in DOMAIN call.ret
        /\ LET r == call.ret
               present == r.monthly_net_flow < 0 /\ call.data.initial_budget > 0
           IN  /\ present <=> (r.runway_months # None)
               /\ present =>
                     r.runway_months.num * Abs(r.monthly_net_flow)
                        = Scale * call.data.initial_budget * r.runway_months.den

\* C7: the outcome compute returns has projected_balance_after_horizon =
\* initial_budget + monthly_net_flow * time_horizon.
C7_ProjectedBalanceAffine ==
    call.fn = "calculate_financial_outcome" =>
        /\ "projected_balance_after_horizon" \in DOMAIN call.ret
        /\ call.ret.projected_balance_after_horizon =
              Scale * call.data.initial_budget
                + call.ret.monthly_net_flow * call.data.time_horizon

\* C8: for sales_volume > 0 and avg_price_per_unit > 0, an input that
\* differs only by a larger pricing_adjustment has a strictly larger
\* monthly_revenue and a strictly larger monthly_net_flow.
C8_PricingMonotone ==
    call.fn = "calculate_financial_outcome" =>
        /\ "monthly_revenue" \in DOMAIN call.ret
        /\ \A other \in ScenarioInputs :
              (/\ [other EXCEPT !.pricing_adjustment = call.data.pricing_adjustment]
                     = call.data
               /\ other.pricing_adjustment > call.data.pricing_adjustment
               /\ call.data.sales_volume > 0
               /\ call.data.avg_price_per_unit > 0) =>
                  LET more == calculate_financial_outcome(other)
                  IN  /\ more.monthly_revenue > call.ret.monthly_revenue
                      /\ more.monthly_net_flow > call.ret.monthly_net_flow

\* A response without the count it carries.
SansCount(r) ==
    [f \in DOMAIN r \ {"scenario_count", "report_count"} |-> r[f]]

RanThrough(i) ==
    {j \in 1..i : RequestOf(j).endpoint = RequestOf(i).endpoint /\ Ran(j)}

\* C10: the response to a call that ran carries the counter's value right
\* after the call's own increment; no two responses of one handler carry the
\* same count, and a call submitted after another was answered carries a
\* strictly larger count.
C10_ResponseCarriesOwnCount ==
    \A i \in LogIndexes :
        Ran(i) =>
            LET field == CountField(RequestOf(i).endpoint)
            IN  /\ field \in DOMAIN log[i].response
                /\ log[i].response[field] = Cardinality(RanThrough(i))
                /\ \A j \in LogIndexes :
                      (j # i /\ Ran(j) /\ RequestOf(j).endpoint = RequestOf(i).endpoint) =>
                          /\ field \in DOMAIN log[j].response
                          /\ log[j].response[field] # log[i].response[field]
                          /\ RequestOf(j).seen >= i =>
                                log[j].response[field] > log[i].response[field]

====
